---- MODULE Spec2Model ----
(***************************************************************************)
(* time_tracker: the Session / Mark model of src/src/session.rs, its       *)
(* markdown codec (SessionFile, Mark::to_string / Mark::from_string,       *)
(* Attribute and Tag lines) and the Session mutators.                      *)
(*                                                                         *)
(* Text is a sequence of one-character strings, so that trim, lines,       *)
(* starts_with and the heading scan are computed as the code computes them.*)
(* A date is its timestamp in milliseconds.  The chrono format             *)
(* "%F %T %:z" is fixed-width and drops the sub-second part; it is         *)
(* modelled by a fixed-width two-digit rendering of the whole seconds.     *)
(***************************************************************************)
EXTENDS Integers, Sequences, FiniteSets

\* ------------------------------------------------------------------ bounds

\* Largest number of marks a session grows to (mark/stop are capped there).
MaxMarks == 2

\* Dates handed to the mutators: whole seconds (DateTime::now truncates to
\* the second, date_time.rs:13-20), as millisecond timestamps.
Dates == {0, 1000}

\* Texts handed to Tag::from_text to make the tags of tag/untag.
TagTexts == {<<"a">>}

\* Config::sessions_path
SessionsPath == <<"s">>

\* Texts handed to write: one that looks like a label line, one that ends
\* with a newline (as in tests::session_to_file_works).
Texts == {<<"-", " ", "e", "n", "d">>, <<"h", "i", "\n">>}

\* ------------------------------------------------------------- str helpers

\* char::is_whitespace over the characters the model uses
WhiteSpace == {" ", "\n"}

RECURSIVE trim_start(_)
\* str::trim_start
trim_start(s) ==
    IF s = <<>> THEN s
    ELSE IF Head(s) \in WhiteSpace THEN trim_start(Tail(s)) ELSE s

RECURSIVE trim_end(_)
\* str::trim_end
trim_end(s) ==
    IF s = <<>> THEN s
    ELSE IF s[Len(s)] \in WhiteSpace THEN trim_end(SubSeq(s, 1, Len(s) - 1)) ELSE s

\* str::trim
trim(s) == trim_end(trim_start(s))

\* str::starts_with
starts_with(s, p) == Len(p) <= Len(s) /\ SubSeq(s, 1, Len(p)) = p

\* str::ends_with
ends_with(s, p) == Len(p) <= Len(s) /\ SubSeq(s, Len(s) - Len(p) + 1, Len(s)) = p

\* str::contains
contains(s, p) == \E i \in 0..(Len(s) - Len(p)) : SubSeq(s, i + 1, i + Len(p)) = p

\* index of the first "\n" of s, 0 when there is none
FirstNewline(s) ==
    IF \E i \in 1..Len(s) : s[i] = "\n"
    THEN CHOOSE i \in 1..Len(s) : s[i] = "\n" /\ \A j \in 1..(i - 1) : s[j] # "\n"
    ELSE 0

RECURSIVE lines(_)
\* str::lines: split at "\n"; a final empty piece is not a line
lines(s) ==
    IF s = <<>> THEN <<>>
    ELSE LET i == FirstNewline(s) IN
         IF i = 0 THEN <<s>>
         ELSE <<SubSeq(s, 1, i - 1)>> \o lines(SubSeq(s, i + 1, Len(s)))

RECURSIVE join(_, _)
\* [&str]::join
join(ls, sep) ==
    IF ls = <<>> THEN <<>>
    ELSE IF Len(ls) = 1 THEN ls[1]
    ELSE ls[1] \o sep \o join(Tail(ls), sep)

\* Iterator::skip
skip(ls, n) == IF n >= Len(ls) THEN <<>> ELSE SubSeq(ls, n + 1, Len(ls))

\* ---------------------------------------------------------------- constants

SESSION_HEADING_PREFIX == <<"#", " ">>
SESSION_TITLE == <<"S", "e", "s", "s", "i", "o", "n">>
MARKS_HEADING == <<"#", "#", " ", "M", "a", "r", "k", "s">>
MARK_HEADING_PREFIX == <<"#", "#", "#", " ">>
LABEL_PREFIX == <<"-", " ">>
LABEL_END == <<"-", " ", "e", "n", "d">>
LABEL_SKIP == <<"-", " ", "s", "k", "i", "p">>
LABEL_TAG == <<"-", " ", "t", "a", "g">>
\* the backquote character; it is written "~" here because the TLA+ lexer
\* does not read a backquote inside a string
LABEL_TAG_SURROUND == <<"~">>

NL == <<"\n">>

\* --------------------------------------------------------------- DateTime

Digits == <<"0", "1", "2", "3", "4", "5", "6", "7", "8", "9">>

DigitValue(c) == CHOOSE n \in 0..9 : Digits[n + 1] = c

IsDigit(c) == \E n \in 0..9 : Digits[n + 1] = c

\* DateTime::to_formatted_pretty: fixed width, whole seconds only
to_formatted_pretty(date) ==
    LET secs == date \div 1000 IN
    <<Digits[((secs \div 10) % 10) + 1], Digits[(secs % 10) + 1]>>

\* DateTime::to_formatted (used for the file name)
to_formatted(date) == to_formatted_pretty(date)

\* chrono::DateTime::from_str on a mark heading: <<date>> or <<>> (error)
DateTime_from_str(s) ==
    IF Len(s) = 2 /\ IsDigit(s[1]) /\ IsDigit(s[2])
    THEN <<(DigitValue(s[1]) * 10 + DigitValue(s[2])) * 1000>>
    ELSE <<>>

\* ------------------------------------------------------- Attribute and Tag

\* Attribute::from_line
Attribute_from_line(text) ==
    LET t == trim(text) IN
    IF t = LABEL_END THEN "Stop"
    ELSE IF t = LABEL_SKIP THEN "Skip"
    ELSE "None"

\* Attribute::to_line
Attribute_to_line(attribute) ==
    IF attribute = "Stop" THEN LABEL_END
    ELSE IF attribute = "Skip" THEN LABEL_SKIP
    ELSE <<>>

\* Tag::from_text: <<tag>>, or <<>> for an error.  A Tag is its text.
Tag_from_text(text) ==
    LET t == trim(text) IN
    IF t = <<>> THEN <<>>
    ELSE IF contains(t, LABEL_TAG_SURROUND) THEN <<>>
    ELSE <<t>>

\* Tag::from_line: status Ok with the tag, Err, or Panic when the slice
\* text[start..end] has start > end (the line is exactly "- tag `")
Tag_from_line(text) ==
    LET open == LABEL_TAG \o <<" ">> \o LABEL_TAG_SURROUND
        start == Len(open)
        end == Len(text) - Len(LABEL_TAG_SURROUND)
    IN  IF starts_with(text, open) /\ ends_with(text, LABEL_TAG_SURROUND)
        THEN IF start > end THEN [status |-> "Panic", tag |-> <<>>]
             ELSE LET tag_text == trim(SubSeq(text, start + 1, end)) IN
                  IF tag_text = <<>> THEN [status |-> "Err", tag |-> <<>>]
                  ELSE [status |-> "Ok", tag |-> <<tag_text>>]
        ELSE [status |-> "Err", tag |-> <<>>]

\* Tag::to_line (its assert on a non-empty text cannot fail: both
\* constructors reject an empty text)
Tag_to_line(tag) == LABEL_TAG \o <<" ">> \o LABEL_TAG_SURROUND \o tag \o LABEL_TAG_SURROUND

\* code points of the characters the model uses, ascending (str::cmp order)
CharOrder ==
    <<"\n", " ", "#", "-", ".", "/", "0", "1", "2", "3", "4", "5", "6", "7", "8", "9",
      "M", "S", "~", "a", "b", "c", "d", "e", "g", "h", "i", "k", "m", "n", "o", "p",
      "r", "s", "t">>

CharCode(c) == CHOOSE i \in 1..Len(CharOrder) : CharOrder[i] = c

RECURSIVE str_lt(_, _)
\* str::cmp(a, b) == Less
str_lt(a, b) ==
    IF b = <<>> THEN FALSE
    ELSE IF a = <<>> THEN TRUE
    ELSE IF Head(a) = Head(b) THEN str_lt(Tail(a), Tail(b))
    ELSE CharCode(Head(a)) < CharCode(Head(b))

RECURSIVE sort_tags(_)
\* a sort that puts the greatest text first
sort_tags_descending(tags) ==
    IF tags = {} THEN <<>>
    ELSE LET greatest == CHOOSE t \in tags : \A u \in tags \ {t} : str_lt(u, t)
         IN  <<greatest>> \o sort_tags(tags \ {greatest})

\* tags.sort_by(|a, b| a.text.cmp(&b.text)) over the tags of a HashSet
sort_tags(tags) ==
    IF tags = {} THEN <<>>
    ELSE LET least == CHOOSE t \in tags : \A u \in tags \ {t} : str_lt(t, u)
         IN  <<least>> \o sort_tags(tags \ {least})

\* --------------------------------------------------------------------- Mark

\* Mark::new
Mark_new(date) == [date |-> date, attribute |-> "None", tags |-> {}, contents |-> <<>>]

\* Mark::write
Mark_write(mark, text) == [mark EXCEPT !.contents = text]

\* erase that leaves the contents alone
Mark_erase_keeps(mark) == mark

\* Mark::erase
Mark_erase(mark) == [mark EXCEPT !.contents = <<>>]

RECURSIVE tag_lines(_)
\* tags.iter().fold(String::new(), |acc, val| acc + "\n" + &val.to_line())
tag_lines(tags) ==
    IF tags = <<>> THEN <<>>
    ELSE NL \o Tag_to_line(Head(tags)) \o tag_lines(Tail(tags))

\* Mark::to_string
Mark_to_string(mark) ==
    LET heading == MARK_HEADING_PREFIX \o to_formatted_pretty(mark.date)
        labels ==
            IF mark.attribute # "None" \/ mark.tags # {}
            THEN NL
                 \o (IF mark.attribute # "None"
                     THEN NL \o Attribute_to_line(mark.attribute) ELSE <<>>)
                 \o (IF mark.tags # {} THEN tag_lines(sort_tags(mark.tags)) ELSE <<>>)
            ELSE <<>>
        trimmed == trim(mark.contents)
    IN  heading \o labels \o (IF trimmed # <<>> THEN NL \o NL \o trimmed ELSE <<>>)

RECURSIVE scan_labels(_, _, _)
\* a label loop in which a second attribute line replaces the first
scan_labels_last_wins(ls, attribute, tags) ==
    IF ls = <<>> \/ ~starts_with(Head(ls), LABEL_PREFIX)
    THEN [status |-> "Ok", attribute |-> attribute, tags |-> tags]
    ELSE LET attr == Attribute_from_line(Head(ls)) IN
         IF attribute = "None" \/ attr # "None" THEN scan_labels(Tail(ls), attr, tags)
         ELSE LET tag == Tag_from_line(Head(ls)) IN
              IF tag.status # "Ok"
              THEN [status |-> tag.status, attribute |-> attribute, tags |-> tags]
              ELSE scan_labels(Tail(ls), attribute, tags \cup {tag.tag[1]})

\* the label loop of Mark::from_string over the lines ls, from the state
\* (attribute, tags): stops at the first line that is no label
scan_labels(ls, attribute, tags) ==
    IF ls = <<>> \/ ~starts_with(Head(ls), LABEL_PREFIX)
    THEN [status |-> "Ok", attribute |-> attribute, tags |-> tags]
    ELSE LET attr == Attribute_from_line(Head(ls)) IN
         IF attribute = "None" THEN scan_labels(Tail(ls), attr, tags)
         ELSE IF attr # "None"
         THEN [status |-> "Err", attribute |-> attribute, tags |-> tags]
         ELSE LET tag == Tag_from_line(Head(ls)) IN
              IF tag.status # "Ok"
              THEN [status |-> tag.status, attribute |-> attribute, tags |-> tags]
              ELSE scan_labels(Tail(ls), attribute, tags \cup {tag.tag[1]})

RECURSIVE fold_lines(_)
\* lines.fold(String::new(), |acc, val| acc + "\n" + val)
fold_lines(ls) == IF ls = <<>> THEN <<>> ELSE NL \o Head(ls) \o fold_lines(Tail(ls))

\* Mark::from_string: status Ok with <<mark>>, Err, or Panic (a heading line
\* shorter than the prefix makes the slice val[4..] panic)
Mark_from_string(text) ==
    LET contents == trim(text)
        ls == lines(contents)
        failed(st) == [status |-> st, mark |-> <<>>]
    IN  IF ls = <<>> THEN failed("Err")
        ELSE IF Len(ls[1]) < Len(MARK_HEADING_PREFIX) THEN failed("Panic")
        ELSE
        LET date == DateTime_from_str(SubSeq(ls[1], Len(MARK_HEADING_PREFIX) + 1, Len(ls[1])))
            contents_without_heading == trim(fold_lines(skip(ls, 1)))
        IN  IF date = <<>> THEN failed("Err")
            ELSE IF ~starts_with(contents_without_heading, LABEL_PREFIX)
            THEN [status |-> "Ok",
                  mark |-> <<[date |-> date[1], attribute |-> "None", tags |-> {},
                              contents |-> contents_without_heading]>>]
            ELSE
            LET labels == scan_labels(lines(contents_without_heading), "None", {})
                labels_len == Cardinality(labels.tags)
                              + (IF labels.attribute # "None" THEN 1 ELSE 0)
            IN  IF labels.status # "Ok" THEN failed(labels.status)
                ELSE [status |-> "Ok",
                      mark |-> <<[date |-> date[1],
                                  attribute |-> labels.attribute,
                                  tags |-> labels.tags,
                                  contents |->
                                      trim(join(skip(lines(contents_without_heading),
                                                     labels_len), NL))]>>]

\* -------------------------------------------------------------- SessionFile

\* SessionFile::build: status Ok with <<file>>, or Err
SessionFile_build(path, text) ==
    LET contents == trim(text) IN
    IF ~starts_with(contents, SESSION_HEADING_PREFIX) \/ ~contains(contents, MARKS_HEADING)
    THEN [status |-> "Err", file |-> <<>>]
    ELSE [status |-> "Ok", file |-> <<[path |-> path, contents |-> contents]>>]

RECURSIVE count_hashes(_)
count_hashes(s) ==
    IF s = <<>> \/ Head(s) # "#" THEN 0 ELSE 1 + count_hashes(Tail(s))

\* SessionFile::get_heading_level
get_heading_level(heading) == count_hashes(trim(heading))

RECURSIVE heading_scan(_, _, _, _)
\* the loop of get_heading_with_contents over the lines ls
heading_scan(ls, heading, heading_level, is_within) ==
    IF ls = <<>> THEN <<>>
    ELSE LET line == Head(ls)
             closed == IF starts_with(line, <<"#">>) /\ get_heading_level(line) <= heading_level
                       THEN FALSE ELSE is_within
             within == IF starts_with(line, heading) THEN TRUE ELSE closed
         IN  (IF within THEN trim(line) \o NL ELSE <<>>)
             \o heading_scan(Tail(ls), heading, heading_level, within)

\* SessionFile::get_heading_with_contents
get_heading_with_contents(heading, contents) ==
    trim(heading_scan(lines(contents), heading, get_heading_level(heading), FALSE))

\* ------------------------------------------------------------ Session codec

RECURSIVE marks_to_string(_)
\* the loop of Session::to_file
marks_to_string(marks) ==
    IF marks = <<>> THEN <<>>
    ELSE Mark_to_string(Head(marks)) \o NL \o NL \o marks_to_string(Tail(marks))

\* Session::to_file
Session_to_file(session) ==
    SessionFile_build(session.path,
        SESSION_HEADING_PREFIX \o SESSION_TITLE \o NL \o NL \o MARKS_HEADING \o NL \o NL
        \o marks_to_string(session.marks))

RECURSIVE decode_marks(_, _)
\* the loop of Session::from_file over the lines ls of the Marks section:
\* the marks decoded so far, or the first failure
decode_marks(ls, marks_contents) ==
    IF ls = <<>> THEN [status |-> "Ok", marks |-> <<>>]
    ELSE IF ~starts_with(Head(ls), MARK_HEADING_PREFIX)
    THEN decode_marks(Tail(ls), marks_contents)
    ELSE LET mark == Mark_from_string(get_heading_with_contents(Head(ls), marks_contents)) IN
         IF mark.status # "Ok" THEN [status |-> mark.status, marks |-> <<>>]
         ELSE LET rest == decode_marks(Tail(ls), marks_contents) IN
              IF rest.status # "Ok" THEN rest
              ELSE [status |-> "Ok", marks |-> mark.mark \o rest.marks]

\* from_file that returns whatever marks it found, none included
Session_from_file_allows_empty(file) ==
    LET marks_contents == get_heading_with_contents(MARKS_HEADING, file.contents)
        decoded == decode_marks(lines(marks_contents), marks_contents)
    IN  IF decoded.status # "Ok" THEN [status |-> decoded.status, session |-> <<>>]
        ELSE [status |-> "Ok",
              session |-> <<[path |-> file.path, marks |-> decoded.marks]>>]

\* Session::from_file: status Ok with <<session>>, Err, or Panic
Session_from_file(file) ==
    LET marks_contents == get_heading_with_contents(MARKS_HEADING, file.contents)
        decoded == decode_marks(lines(marks_contents), marks_contents)
    IN  IF decoded.status # "Ok" THEN [status |-> decoded.status, session |-> <<>>]
        ELSE IF decoded.marks = <<>> THEN [status |-> "Err", session |-> <<>>]
        ELSE [status |-> "Ok",
              session |-> <<[path |-> file.path, marks |-> decoded.marks]>>]

\* ------------------------------------------------------------------ Session

\* the last mark (marks.last().expect(..): a session has at least one mark)
Last(session) == session.marks[Len(session.marks)]

\* the session with its last mark replaced (what a write through
\* marks.last_mut() does)
WithLast(session, mark) ==
    [session EXCEPT !.marks = [@ EXCEPT ![Len(session.marks)] = mark]]

\* the value a mutator returns: a status and, for unmark, the removed mark
Ret(status) == [status |-> status, mark |-> <<>>]

\* Session::new
Session_new(date) ==
    [path |-> SessionsPath \o <<"/">> \o to_formatted(date) \o <<".", "m", "d">>,
     marks |-> <<Mark_new(date)>>]

\* Session::is_active
is_active(session) == Last(session).attribute # "Stop"

\* stop that forgets the attribute of the mark it appends
Session_stop_plain(session, date) ==
    IF ~is_active(session) THEN [session |-> session, ret |-> Ret("Err")]
    ELSE [session |-> [session EXCEPT !.marks = Append(@, Mark_new(date))],
          ret |-> Ret("Ok")]

\* stop without the check for an Ended session
Session_stop_unchecked(session, date) ==
    [session |-> [session EXCEPT
                     !.marks = Append(@, [Mark_new(date) EXCEPT !.attribute = "Stop"])],
     ret |-> Ret("Ok")]

\* stop that turns the last mark into the Stop mark instead of appending one
Session_stop_in_place(session, date) ==
    IF ~is_active(session) THEN [session |-> session, ret |-> Ret("Err")]
    ELSE [session |-> WithLast(session, [Mark_new(date) EXCEPT !.attribute = "Stop"]),
          ret |-> Ret("Ok")]

\* Session::stop
Session_stop(session, date) ==
    IF ~is_active(session) THEN [session |-> session, ret |-> Ret("Err")]
    ELSE [session |-> [session EXCEPT
                          !.marks = Append(@, [Mark_new(date) EXCEPT !.attribute = "Stop"])],
          ret |-> Ret("Ok")]

\* skip that leaves a Stop attribute alone
Session_skip_keeps_stop(session) ==
    [session |-> IF Last(session).attribute = "Stop" THEN session
                 ELSE WithLast(session, [Last(session) EXCEPT !.attribute = "Skip"]),
     ret |-> Ret("Unit")]

\* skip that clears the attribute of the last mark instead of setting Skip
Session_skip_clears(session) ==
    [session |-> WithLast(session, [Last(session) EXCEPT !.attribute = "None"]),
     ret |-> Ret("Unit")]

\* Session::skip
Session_skip(session) ==
    [session |-> WithLast(session, [Last(session) EXCEPT !.attribute = "Skip"]),
     ret |-> Ret("Unit")]

\* mark that appends a copy of the last mark at the new date
Session_mark_copies_last(session, date) ==
    IF ~is_active(session) THEN [session |-> session, ret |-> Ret("Err")]
    ELSE [session |-> [session EXCEPT !.marks = Append(@, [Last(session) EXCEPT !.date = date])],
          ret |-> Ret("Ok")]

\* mark without the check for an Ended session
Session_mark_unchecked(session, date) ==
    [session |-> [session EXCEPT !.marks = Append(@, Mark_new(date))],
     ret |-> Ret("Ok")]

\* Session::mark
Session_mark(session, date) ==
    IF ~is_active(session) THEN [session |-> session, ret |-> Ret("Err")]
    ELSE [session |-> [session EXCEPT !.marks = Append(@, Mark_new(date))],
          ret |-> Ret("Ok")]

\* remark that replaces the last mark by a new mark at the date
Session_remark_resets(session, date) ==
    [session |-> WithLast(session, Mark_new(date)), ret |-> Ret("Unit")]

\* Session::remark
Session_remark(session, date) ==
    [session |-> WithLast(session, [Last(session) EXCEPT !.date = date]),
     ret |-> Ret("Unit")]

\* unmark without the protection of the only mark
Session_unmark_unprotected(session) ==
    IF Len(session.marks) > 0
    THEN [session |-> [session EXCEPT !.marks = SubSeq(@, 1, Len(@) - 1)],
          ret |-> [status |-> "Some", mark |-> <<Last(session)>>]]
    ELSE [session |-> session, ret |-> Ret("None")]

\* unmark that removes the first mark instead of the last
Session_unmark_first(session) ==
    IF Len(session.marks) > 1
    THEN [session |-> [session EXCEPT !.marks = Tail(@)],
          ret |-> [status |-> "Some", mark |-> <<session.marks[1]>>]]
    ELSE [session |-> session, ret |-> Ret("None")]

\* unmark that removes the mark before the last one
Session_unmark_before_last(session) ==
    IF Len(session.marks) > 1
    THEN [session |-> [session EXCEPT
                          !.marks = SubSeq(@, 1, Len(@) - 2) \o <<Last(session)>>],
          ret |-> [status |-> "Some", mark |-> <<session.marks[Len(session.marks) - 1]>>]]
    ELSE [session |-> session, ret |-> Ret("None")]

\* Session::unmark
Session_unmark(session) ==
    IF Len(session.marks) > 1
    THEN [session |-> [session EXCEPT !.marks = SubSeq(@, 1, Len(@) - 1)],
          ret |-> [status |-> "Some", mark |-> <<Last(session)>>]]
    ELSE [session |-> session, ret |-> Ret("None")]

\* tag that puts the tag on every mark of the session
Session_tag_all(session, tag) ==
    [session |-> [session EXCEPT !.marks =
                     [i \in 1..Len(session.marks) |->
                         [session.marks[i] EXCEPT !.tags = @ \cup {tag}]]],
     ret |-> Ret(IF tag \in Last(session).tags THEN "false" ELSE "true")]

\* Session::tag (HashSet::insert: true iff the tag was not there)
Session_tag(session, tag) ==
    [session |-> WithLast(session, [Last(session) EXCEPT !.tags = @ \cup {tag}]),
     ret |-> Ret(IF tag \in Last(session).tags THEN "false" ELSE "true")]

\* untag that clears the whole tag set
Session_untag_clears(session, tag) ==
    [session |-> WithLast(session, [Last(session) EXCEPT
                     !.tags = IF tag \in @ THEN {} ELSE @]),
     ret |-> Ret(IF tag \in Last(session).tags THEN "true" ELSE "false")]

\* Session::untag (HashSet::remove: true iff the tag was there)
Session_untag(session, tag) ==
    [session |-> WithLast(session, [Last(session) EXCEPT !.tags = @ \ {tag}]),
     ret |-> Ret(IF tag \in Last(session).tags THEN "true" ELSE "false")]

\* write without the check for existing contents
Session_write_overwrites(session, text) ==
    [session |-> WithLast(session, Mark_write(Last(session), text)), ret |-> Ret("Ok")]

\* write that checks the contents of the first mark instead of the last
Session_write_checks_first(session, text) ==
    IF session.marks[1].contents # <<>> THEN [session |-> session, ret |-> Ret("Err")]
    ELSE [session |-> WithLast(session, Mark_write(Last(session), text)),
          ret |-> Ret("Ok")]

\* Session::write
Session_write(session, text) ==
    IF Last(session).contents # <<>> THEN [session |-> session, ret |-> Ret("Err")]
    ELSE [session |-> WithLast(session, Mark_write(Last(session), text)),
          ret |-> Ret("Ok")]

\* session.marks.last_mut().expect(..).erase(), as the write command does
Session_erase(session) ==
    [session |-> WithLast(session, Mark_erase(Last(session))), ret |-> Ret("Unit")]

\* ------------------------------------------------------------ tracked time

\* what a computation of milliseconds yields; a panic carries no value
Millis(value) == [status |-> "Ok", value |-> value]

MillisPanic == [status |-> "Panic", value |-> 0]

\* get_time that yields 0 for an end before the start
DateTime_get_time_saturating(start, end) ==
    IF end - start < 0 THEN Millis(0) ELSE Millis(end - start)

\* DateTime::get_time: end - start in milliseconds, converted to u64 with
\* try_into().expect(..), which panics on a negative difference
DateTime_get_time(start, end) ==
    IF end - start < 0 THEN MillisPanic ELSE Millis(end - start)

\* acc += ..: a panic in the right-hand side ends the computation
add_time(acc, time) ==
    IF acc.status = "Ok" /\ time.status = "Ok"
    THEN Millis(acc.value + time.value)
    ELSE MillisPanic

RECURSIVE get_time_loop(_, _, _, _)
\* the loop of Session::get_time over self.marks.iter().skip(1): marks[i] is
\* mark, marks[p] is mark_preceding; yields acc and the final mark_preceding
get_time_loop(marks, i, p, acc) ==
    IF i > Len(marks) THEN [acc |-> acc, p |-> p]
    ELSE get_time_loop(marks, i + 1, i,
            IF marks[p].attribute # "Skip"
            THEN add_time(acc, DateTime_get_time(marks[p].date, marks[i].date))
            ELSE acc)

\* get_time that never adds the time since the last mark
Session_get_time_marks_only(session, now) ==
    get_time_loop(session.marks, 2, 1, Millis(0)).acc

\* get_time that adds the time since the last mark even when it has Skip
Session_get_time_counts_skipped_tail(session, now) ==
    LET looped == get_time_loop(session.marks, 2, 1, Millis(0))
    IN  IF is_active(session)
        THEN add_time(looped.acc,
                      DateTime_get_time(session.marks[looped.p].date, now))
        ELSE looped.acc

\* get_time that adds the time since the last mark of an ended session too
Session_get_time_always_extrapolates(session, now) ==
    LET looped == get_time_loop(session.marks, 2, 1, Millis(0))
    IN  IF session.marks[looped.p].attribute # "Skip"
        THEN add_time(looped.acc,
                      DateTime_get_time(session.marks[looped.p].date, now))
        ELSE looped.acc

\* Session::get_time, with DateTime::now().date passed as now
Session_get_time(session, now) ==
    LET looped == get_time_loop(session.marks, 2, 1, Millis(0))
    IN  IF is_active(session) /\ session.marks[looped.p].attribute # "Skip"
        THEN add_time(looped.acc,
                      DateTime_get_time(session.marks[looped.p].date, now))
        ELSE looped.acc

\* ------------------------------------------------------------- Aggregator

\* the numbers of a query: Session::get_time, and the week time, the age of
\* the last mark and the start of the week that Aggregator::view computes;
\* date is filled by the functions of DateTime that return a date
Out(time, week, mark_age, week_start) ==
    [time |-> time, week |-> week, mark_age |-> mark_age, week_start |-> week_start,
     date |-> 0]

\* the date a function of DateTime returned
OutDate(date) == [Out(0, 0, 0, 0) EXCEPT !.date = date]

\* the milliseconds of a day: 24 * 60 * 60 * 1000
DayMillis == 86400000

HourMillis == DayMillis \div 24

\* Session::start
Session_start(session) == session.marks[1].date

\* a start of week that counts the days since Sunday
get_start_of_week_from_sunday(date, offset) ==
    LET days_since_sunday == (((date + offset) \div DayMillis) + 4) % 7
        shifted == date - days_since_sunday * DayMillis
    IN  ((shifted + offset) \div DayMillis) * DayMillis - offset

\* DateTime::get_start_of_week for chrono::Local at a fixed offset east of
\* UTC (no daylight-saving change in the week): the weekday is read from the
\* local date (day 0 of the epoch is a Thursday), that many days are
\* subtracted, and with_time(00:00:00) moves back to the local midnight
get_start_of_week(date, offset) ==
    LET days_since_monday == (((date + offset) \div DayMillis) + 3) % 7
        shifted == date - days_since_monday * DayMillis
    IN  ((shifted + offset) \div DayMillis) * DayMillis - offset

\* a filter that looks at the date of the last mark of the session
in_week_by_end(v, start_of_week) == Last(v).date - start_of_week >= 0

\* the filter of Aggregator::view:
\* v.start().timestamp_millis() - start_of_week.timestamp_millis() >= 0
in_week(v, start_of_week) == Session_start(v) - start_of_week >= 0

RECURSIVE week_fold(_, _, _, _, _)
\* self.sessions.iter().filter(..).fold(0, |acc, val| acc + val.get_time())
week_fold(sessions, i, start_of_week, now, acc) ==
    IF i > Len(sessions) THEN acc
    ELSE week_fold(sessions, i + 1, start_of_week, now,
            IF in_week(sessions[i], start_of_week)
            THEN add_time(acc, Session_get_time(sessions[i], now))
            ELSE acc)

\* The numbers of Aggregator::view (its text formats them): the time of the
\* last session, the week time, the age of the last mark and the start of
\* the week. Every DateTime::now() of one call is read as the same now.
Aggregator_view(sessions, now, offset) ==
    IF sessions = <<>> THEN [status |-> "Panic", out |-> Out(0, 0, 0, 0)]
    ELSE
    LET session == sessions[Len(sessions)]
        start_of_week == get_start_of_week(Session_start(session), offset)
        week_time == week_fold(sessions, 1, start_of_week, now, Millis(0))
        session_time == Session_get_time(session, now)
        mark_last == Last(session)
        mark_last_time ==
            IF is_active(session)
            THEN DateTime_get_time(mark_last.date, now)
            ELSE Millis(0)
    IN  IF \/ Len(session.marks) = 1 /\ mark_last.attribute = "Stop"
           \/ week_time.status # "Ok"
           \/ session_time.status # "Ok"
           \/ mark_last_time.status # "Ok"
        THEN [status |-> "Panic", out |-> Out(0, 0, 0, 0)]
        ELSE [status |-> "Ok",
              out |-> Out(session_time.value, week_time.value,
                          mark_last_time.value, start_of_week)]

\* ------------------------------------------------- DateTime: relative input

RECURSIVE digits_value(_, _)
\* the number written by the decimal digits s after the digits read as acc
digits_value(s, acc) ==
    IF s = <<>> THEN acc
    ELSE digits_value(Tail(s), acc * 10 + DigitValue(Head(s)))

all_digits(s) == s # <<>> /\ \A i \in 1..Len(s) : IsDigit(s[i])

\* str::parse::<i64>: an optional "+" or "-" and at least one digit (the
\* texts of the model stay far below the 19 digits that overflow); <<n>> or
\* <<>> for an error
parse_i64(s) ==
    IF s # <<>> /\ Head(s) = "-"
    THEN IF all_digits(Tail(s)) THEN <<0 - digits_value(Tail(s), 0)>> ELSE <<>>
    ELSE IF s # <<>> /\ Head(s) = "+"
    THEN IF all_digits(Tail(s)) THEN <<digits_value(Tail(s), 0)>> ELSE <<>>
    ELSE IF all_digits(s) THEN <<digits_value(s, 0)>> ELSE <<>>

\* str::parse::<u32>: an optional "+" and at least one digit; no "-"
parse_u32(s) ==
    IF s # <<>> /\ Head(s) = "+"
    THEN IF all_digits(Tail(s)) THEN <<digits_value(Tail(s), 0)>> ELSE <<>>
    ELSE IF all_digits(s) THEN <<digits_value(s, 0)>> ELSE <<>>

\* DateTime::plus_milli
plus_milli(date, milli) == date + milli

\* DateTime::plus_seconds
plus_seconds(date, seconds) == plus_milli(date, seconds * 1000)

\* plus_minutes that adds seconds
plus_minutes_as_seconds(date, minutes) == plus_milli(date, minutes * 1000)

\* DateTime::plus_minutes
plus_minutes(date, minutes) == plus_milli(date, minutes * 60 * 1000)

\* DateTime::plus_hours
plus_hours(date, hours) == plus_milli(date, hours * 60 * 60 * 1000)

\* chrono's with_hour on a date of the zone at offset: the hour of the local
\* time is replaced, its day, minute, second and millisecond are kept
with_hour(date, offset, hour) ==
    LET local == date + offset
    IN  (local \div DayMillis) * DayMillis + hour * HourMillis
        + (local % HourMillis) - offset

\* with_minute that also sets the seconds to zero
with_minute_on_the_minute(date, offset, minute) ==
    LET local == date + offset
    IN  (local \div HourMillis) * HourMillis + minute * 60 * 1000 - offset

\* chrono's with_minute: the minute of the local time is replaced, its day,
\* hour, second and millisecond are kept
with_minute(date, offset, minute) ==
    LET local == date + offset
    IN  (local \div HourMillis) * HourMillis + minute * 60 * 1000
        + (local % (60 * 1000)) - offset

\* is_same_day / is_same_hour that forgets the sign: any target not before
\* the base is kept
is_same_ignores_sign(difference, sign) == difference >= 0

\* a test that takes a target equal to the base as reached for either sign
is_same_or_equal(difference, sign) ==
    IF difference = 0 THEN TRUE ELSE sign * difference > 0

\* is_same_day and is_same_hour:
\* if difference == 0 { sign > 0 } else { sign * difference > 0 }
is_same(difference, sign) ==
    IF difference = 0 THEN sign > 0 ELSE sign * difference > 0

\* what modify_by_relative_input returns: Ok with <<date>>, or Err
Modified(date) == [status |-> "Ok", date |-> <<date>>]

NotModified == [status |-> "Err", date |-> <<>>]

\* DateTime::modify_by_relative_input on the date self of the zone at offset
modify_by_relative_input(self, offset, input) ==
    LET trimmed == trim(input)
        negative == starts_with(trimmed, <<"-">>)
        text == IF negative THEN Tail(trimmed) ELSE trimmed
        sign == IF negative THEN 0 - 1 ELSE 1
        colons == {i \in 1..Len(text) : text[i] = ":"}
    IN  IF ends_with(text, <<"h">>) \/ ends_with(text, <<"m">>) \/ ends_with(text, <<"s">>)
        THEN LET time == parse_i64(SubSeq(text, 1, Len(text) - 1))
                 unit == text[Len(text)]
             IN  IF time = <<>> THEN NotModified
                 ELSE IF unit = "s" THEN Modified(plus_seconds(self, sign * time[1]))
                 ELSE IF unit = "m" THEN Modified(plus_minutes(self, sign * time[1]))
                 ELSE Modified(plus_hours(self, sign * time[1]))
        ELSE IF /\ Len(text) <= 5
                /\ Cardinality(colons) = 1
                /\ ~starts_with(text, <<":">>)
                /\ ~ends_with(text, <<":">>)
        THEN LET colon_index == CHOOSE i \in colons : TRUE
                 hour == parse_u32(SubSeq(text, 1, colon_index - 1))
                 minute == parse_u32(SubSeq(text, colon_index + 1, Len(text)))
             IN  IF hour = <<>> \/ minute = <<>> THEN NotModified
                 ELSE IF ~(hour[1] < 24) \/ ~(minute[1] < 60) THEN NotModified
                 ELSE
                 LET date_parsed ==
                         with_minute(with_hour(self, offset, hour[1]), offset, minute[1])
                     difference == date_parsed - self
                 IN  IF is_same(difference, sign) THEN Modified(date_parsed)
                     ELSE Modified(date_parsed + sign * 24 * 60 * 60 * 1000)
        ELSE LET v == parse_u32(text)
             IN  IF v = <<>> THEN NotModified
                 ELSE IF ~(v[1] < 60) THEN NotModified
                 ELSE
                 LET date_parsed == with_minute(self, offset, v[1])
                     difference == date_parsed - self
                 IN  IF is_same(difference, sign) THEN Modified(date_parsed)
                     ELSE Modified(date_parsed + sign * 60 * 60 * 1000)

\* ------------------------------------------------------------ state machine

VARIABLES
    session,    \* the Session value: [path, marks]
    call,       \* the last operation and its arguments
    ret,        \* what the last operation returned
    prev,       \* the Session value the last operation was called on
    out,        \* the milliseconds the last query computed (Out(0, 0, 0, 0) otherwise)
    aggregator  \* Aggregator::sessions (<<>> while no Aggregator is built)

vars == <<session, call, ret, prev, out, aggregator>>

\* the tags Tag::from_text makes of the texts in T
TagsOf(T) == {Tag_from_text(text)[1] : text \in {x \in T : Tag_from_text(x) # <<>>}}

Call(op, date, text) == [op |-> op, date |-> date, text |-> text, offset |-> 0]

\* a call on a date read in the local time zone, offset east of UTC
CallAt(op, date, text, offset) == [Call(op, date, text) EXCEPT !.offset = offset]

\* one call of a mutator: the session and the returned value are the result's
Apply(c, result) ==
    /\ session' = result.session
    /\ ret' = result.ret
    /\ call' = c
    /\ prev' = session
    /\ out' = Out(0, 0, 0, 0)
    /\ UNCHANGED aggregator

\* Session::new at a date of D
InitOver(D) ==
    \E date \in D :
        /\ session = Session_new(date)
        /\ call = Call("new", date, <<>>)
        /\ ret = Ret("Ok")
        /\ prev = Session_new(date)
        /\ out = Out(0, 0, 0, 0)
        /\ aggregator = <<>>

\* mark and stop append; the model stops growing a session at MaxMarks
Room == Len(session.marks) < MaxMarks \/ ~is_active(session)

\* marks.last_mut().expect("session must always have at least one mark")
HasMark == session.marks # <<>>

Mark(D) ==
    \E date \in D :
        Room /\ Apply(Call("mark", date, <<>>), Session_mark(session, date))

Stop(D) ==
    \E date \in D :
        Room /\ Apply(Call("stop", date, <<>>), Session_stop(session, date))

Remark(D) ==
    \E date \in D :
        HasMark /\ Apply(Call("remark", date, <<>>), Session_remark(session, date))

Unmark ==
    /\ call' = Call("unmark", 0, <<>>)
    /\ session' = Session_unmark(session).session
    /\ ret' = Session_unmark(session).ret
    /\ prev' = session
    /\ out' = Out(0, 0, 0, 0)
    /\ UNCHANGED aggregator

Skip == HasMark /\ Apply(Call("skip", 0, <<>>), Session_skip(session))

Tag(G) == \E tag \in G : HasMark /\ Apply(Call("tag", 0, tag), Session_tag(session, tag))

Untag(G) == \E tag \in G : HasMark /\ Apply(Call("untag", 0, tag), Session_untag(session, tag))

Write(X) == \E text \in X : HasMark /\ Apply(Call("write", 0, text), Session_write(session, text))

Erase == HasMark /\ Apply(Call("erase", 0, <<>>), Session_erase(session))

\* any mutator, with dates of D, tags of G and texts of X
NextOver(D, G, X) ==
    \/ Mark(D)
    \/ Stop(D)
    \/ Remark(D)
    \/ Unmark
    \/ Skip
    \/ Tag(G)
    \/ Untag(G)
    \/ Write(X)
    \/ Erase

Init == InitOver(Dates)

Next == NextOver(Dates, TagsOf(TagTexts), Texts)

Spec == Init /\ [][Next]_vars

\* The same machine over one date, one text and two tags (one of them handed
\* to Tag::from_text with a leading blank), for the claims about tag sets.
TwoTagTexts == {<<"a">>, <<" ", "b">>}

InitTags == InitOver({0})

NextTags == NextOver({0}, TagsOf(TwoTagTexts), {<<"h", "i", "\n">>})

SpecTags == InitTags /\ [][NextTags]_vars

\* The same machine over one date and one tag, with the texts the write
\* command passes after args[0].trim() (the empty text among them) and a
\* blank text handed to Session::write as it is.
WriteTexts == {<<>>, <<"h", "i">>, <<" ">>}

InitWrite == InitOver({0})

NextWrite == NextOver({0}, TagsOf(TagTexts), WriteTexts)

SpecWrite == InitWrite /\ [][NextWrite]_vars

\* ---------------------------------------------- the machine of Session::get_time

\* The longest list of marks of a session whose time is computed.
MaxTimeMarks == 3

\* The dates of the marks: a start, one hour later, two hours later.
TimeDates == {0, 3600000, 7200000}

\* The values of DateTime::now(): one of them before the later marks.
Nows == {0, 7200000, 10800000}

\* Session::from_file accepts any dates and any attribute on any mark, so
\* every such list of marks is the value of a Session.
TimeMarks == [date : TimeDates, attribute : {"None", "Skip", "Stop"},
              tags : {{}}, contents : {<<>>}]

TimeSessions ==
    {[path |-> SessionsPath, marks |-> marks] :
        marks \in UNION {[1..n -> TimeMarks] : n \in 1..MaxTimeMarks}}

InitTime ==
    \E s \in TimeSessions :
        /\ session = s
        /\ call = Call("from_file", 0, <<>>)
        /\ ret = Ret("Ok")
        /\ prev = s
        /\ out = Out(0, 0, 0, 0)
        /\ aggregator = <<>>

\* session.get_time() at the time now
GetTime(N) ==
    \E now \in N :
        LET time == Session_get_time(session, now)
        IN  /\ call' = Call("get_time", now, <<>>)
            /\ ret' = Ret(time.status)
            /\ out' = Out(time.value, 0, 0, 0)
            /\ prev' = session
            /\ UNCHANGED <<session, aggregator>>

NextTime == GetTime(Nows)

SpecTime == InitTime /\ [][NextTime]_vars

\* --------------------------------------------- the machine of Aggregator::view

\* The longest list of sessions of an Aggregator.
MaxSessions == 3

\* The offsets of the local time zone east of UTC: none, one hour.
Offsets == {0, HourMillis}

\* The start of an old session: the Monday that is day -3 of the epoch.
OldStart == 0 - 3 * DayMillis

\* The starts of the recent sessions: one hour before the next Monday (day 4)
\* begins in UTC, that Monday, and the Wednesday after it, which is 9 days
\* after the old start.
WeekStarts == {4 * DayMillis - HourMillis, 4 * DayMillis, 6 * DayMillis}

\* The values of DateTime::now(): after every mark, and before some.
WeekNows == {4 * DayMillis, 6 * DayMillis + 2 * HourMillis}

\* A session of a start and a stop one hour later, or of one mark that is
\* only a Stop, as an edited file can hold, or, when it is recent, of one
\* mark and active (the time of an active session grows with now, and the
\* sum of the times has to stay below 2^31).
WeekSessions ==
    {[path |-> SessionsPath, marks |-> marks] :
        marks \in UNION {
            {<<[Mark_new(d) EXCEPT !.attribute = "Stop"]>>,
             <<Mark_new(d), [Mark_new(d + HourMillis) EXCEPT !.attribute = "Stop"]>>}
            : d \in WeekStarts \cup {OldStart}}
          \cup {<<Mark_new(d)>> : d \in WeekStarts}}

\* Aggregator::build: the sessions decoded from the files of the directory
InitWeek ==
    \E n \in 1..MaxSessions :
        \E sessions \in [1..n -> WeekSessions] :
            /\ aggregator = sessions
            /\ session = sessions[n]
            /\ call = Call("build", 0, <<>>)
            /\ ret = Ret("Ok")
            /\ prev = sessions[n]
            /\ out = Out(0, 0, 0, 0)

\* aggregator.view() at the time now in a time zone at offset
View(N, O) ==
    \E now \in N, offset \in O :
        LET view == Aggregator_view(aggregator, now, offset)
        IN  /\ call' = Call("view", now, <<>>)
            /\ ret' = Ret(view.status)
            /\ out' = view.out
            /\ prev' = session
            /\ UNCHANGED <<session, aggregator>>

NextWeek == View(WeekNows, Offsets)

SpecWeek == InitWeek /\ [][NextWeek]_vars

\* ------------------------------------------- the machine of reading a file

\* The longest run of label lines in the mark block of a document.
MaxLabels == 3

\* The label lines a document may hold: the two attribute lines, the line of
\* the tag a, a line that is no label, and a tag line cut after its opening
\* quote.
LabelLines ==
    {LABEL_END, LABEL_SKIP, Tag_to_line(<<"a">>),
     LABEL_PREFIX \o <<"h", "i">>, LABEL_TAG \o <<" ">> \o LABEL_TAG_SURROUND}

\* The free text of the mark block of a document.
BlockTexts == {<<>>, <<"h", "i">>}

\* what a session file begins with: the title and the heading of the marks
DocumentHeader ==
    SESSION_HEADING_PREFIX \o SESSION_TITLE \o NL \o NL \o MARKS_HEADING

\* one mark block: the heading, a blank line and the label lines one per
\* line, a blank line and the free text
MarkBlock(date, labels, text) ==
    MARK_HEADING_PREFIX \o to_formatted_pretty(date)
    \o (IF labels # <<>> THEN NL \o NL \o join(labels, NL) ELSE <<>>)
    \o (IF text # <<>> THEN NL \o NL \o text ELSE <<>>)

\* The texts a session file may hold after an edit by hand: the header
\* alone, the header and lines that are no mark heading, or the header and
\* one mark block.
Documents ==
    {DocumentHeader,
     DocumentHeader \o NL \o NL \o <<"h", "i">>,
     DocumentHeader \o NL \o NL \o LABEL_END}
    \cup {DocumentHeader \o NL \o NL \o MarkBlock(0, labels, text) :
            labels \in UNION {[1..n -> LabelLines] : n \in 0..MaxLabels},
            text \in BlockTexts}

\* Session::get_last: the text of the file of the session is read, built
\* into a SessionFile and decoded; the decoded session replaces the one held.
\* A run of the program reads the file once.
Load(T) ==
    /\ call.op # "from_file"
    /\ \E text \in T :
        LET file == SessionFile_build(session.path, text)
            decoded == IF file.status = "Ok" THEN Session_from_file(file.file[1])
                       ELSE [status |-> file.status, session |-> <<>>]
        IN  /\ call' = Call("from_file", 0, text)
            /\ ret' = Ret(decoded.status)
            /\ session' = IF decoded.status = "Ok" THEN decoded.session[1] ELSE session
            /\ prev' = session
            /\ out' = Out(0, 0, 0, 0)
            /\ UNCHANGED aggregator

InitDecode == InitOver({0})

NextDecode == Load(Documents)

SpecDecode == InitDecode /\ [][NextDecode]_vars

\* ------------------------------------- the machine of one Mark and its text

\* The dates, attributes and contents of the mark that is written as text.
MarkDates == {0, 1000}

MarkAttributes == {"None", "Skip", "Stop"}

MarkTexts == {<<>>, <<"h", "i">>, <<"h", "i", "\n">>, <<"-", " ", "e", "n", "d">>}

\* the marks a test builds field by field
Marks ==
    [date : MarkDates, attribute : MarkAttributes,
     tags : SUBSET TagsOf(TwoTagTexts), contents : MarkTexts]

InitMark ==
    \E mark \in Marks :
        LET s == WithLast(Session_new(mark.date), mark)
        IN  /\ session = s
            /\ call = Call("new", mark.date, <<>>)
            /\ ret = Ret("Ok")
            /\ prev = s
            /\ out = Out(0, 0, 0, 0)
            /\ aggregator = <<>>

\* Mark::from_string(&mark.to_string()) on the mark of the session: the text
\* is kept in call, the outcome (with the decoded mark) in ret
Reparse ==
    LET text == Mark_to_string(Last(session))
    IN  /\ call' = Call("from_string", Last(session).date, text)
        /\ ret' = Mark_from_string(text)
        /\ prev' = session
        /\ out' = Out(0, 0, 0, 0)
        /\ UNCHANGED <<session, aggregator>>

NextMark == Reparse

SpecMark == InitMark /\ [][NextMark]_vars

\* --------------------------------------- the machine of the DateTime functions

\* n written in decimal without padding, and with two digits
Decimal(n) ==
    IF n < 10 THEN <<Digits[n + 1]>>
    ELSE <<Digits[(n \div 10) + 1], Digits[(n % 10) + 1]>>

TwoDigits(n) == <<Digits[(n \div 10) + 1], Digits[(n % 10) + 1]>>

\* the time of day h:m:s in milliseconds
TimeOfDay(h, m, s) == h * HourMillis + m * 60 * 1000 + s * 1000

\* The dates a relative input is applied to: a midnight, a half hour with
\* and without seconds, and the last second of the day (all UTC).
BaseDates ==
    {DayMillis + t : t \in {TimeOfDay(0, 0, 0), TimeOfDay(12, 30, 0),
                            TimeOfDay(12, 30, 15), TimeOfDay(23, 59, 59)}}

\* what a relative input may begin with
Signs == {<<>>, <<"-">>, <<"+">>, <<"-", "-">>}

\* The relative inputs: a number and a unit, a time of day, a bare minute,
\* each after every sign, and some texts that are none of these.
UnitInputs ==
    {sign \o Decimal(n) \o <<unit>> :
        sign \in Signs, n \in {0, 15, 90}, unit \in {"s", "m", "h"}}

ClockInputs ==
    {sign \o Decimal(h) \o <<":">> \o TwoDigits(m) :
        sign \in Signs, h \in {0, 9, 12, 23, 24}, m \in {0, 30, 59, 60}}

MinuteInputs == {sign \o Decimal(m) : sign \in Signs, m \in {0, 30, 59, 60}}

OtherInputs ==
    {<<>>, <<"-">>, <<"h">>, <<"-", "m">>, <<":", "3", "0">>, <<"1", "2", ":">>,
     <<" ", "1", "5", "m", " ">>, <<"1", ":", "2", ":", "3">>}

Inputs == UnitInputs \cup ClockInputs \cup MinuteInputs \cup OtherInputs

\* The dates whose week is asked for: three times of day on each day of two
\* weeks, from the Monday that is day -3 of the epoch.
WeekDays == (0 - 3)..10

WeekDates ==
    {d * DayMillis + t :
        d \in WeekDays,
        t \in {TimeOfDay(0, 0, 0), TimeOfDay(12, 30, 15), TimeOfDay(23, 59, 59)}}

InitDate == InitOver({0})

\* DateTime::new(&base).modify_by_relative_input(input) in the zone at offset;
\* a run of the program reads one relative input
Modify(B, O, I) ==
    /\ call.op = "new"
    /\ \E base \in B, offset \in O, input \in I :
        LET modified == modify_by_relative_input(base, offset, input)
        IN  /\ call' = CallAt("modify_by_relative_input", base, input, offset)
            /\ ret' = Ret(modified.status)
            /\ out' = IF modified.status = "Ok" THEN OutDate(modified.date[1])
                      ELSE Out(0, 0, 0, 0)
            /\ prev' = session
            /\ UNCHANGED <<session, aggregator>>

\* DateTime::get_start_of_week(&date) in the zone at offset
StartOfWeek(D, O) ==
    /\ call.op = "new"
    /\ \E date \in D, offset \in O :
        /\ call' = CallAt("get_start_of_week", date, <<>>, offset)
        /\ ret' = Ret("Ok")
        /\ out' = [Out(0, 0, 0, 0) EXCEPT !.week_start = get_start_of_week(date, offset)]
        /\ prev' = session
        /\ UNCHANGED <<session, aggregator>>

NextDate == Modify(BaseDates, Offsets, Inputs) \/ StartOfWeek(WeekDates, Offsets)

SpecDate == InitDate /\ [][NextDate]_vars

\* ------------------------------------------------------------------ claims

\* The marks of s before its last one, and the path, are those of p.
SameButLast(p, s) ==
    /\ s.path = p.path
    /\ Len(s.marks) = Len(p.marks)
    /\ \A i \in 1..(Len(p.marks) - 1) : s.marks[i] = p.marks[i]

\* s is p with one mark m appended.
Appended(p, s, m) ==
    /\ s.path = p.path
    /\ Len(s.marks) = Len(p.marks) + 1
    /\ \A i \in 1..Len(p.marks) : s.marks[i] = p.marks[i]
    /\ s.marks[Len(s.marks)] = m

\* C1: encoding the session (to_file) and decoding the text (from_file)
\* succeeds and yields a Session equal to it: the same path and the same
\* marks in order.
C1_RoundTrip ==
    LET file == Session_to_file(session) IN
    /\ file.status = "Ok"
    /\ LET decoded == Session_from_file(file.file[1]) IN
       /\ decoded.status = "Ok"
       /\ decoded.session = <<session>>

\* C2: Session::new makes exactly one mark (attribute None, no tags, empty
\* contents) of an Active session, and every reachable session has at least
\* one mark.
C2_AtLeastOneMark ==
    /\ Len(session.marks) >= 1
    /\ call.op = "new" =>
          /\ session.marks =
                <<[date |-> call.date, attribute |-> "None", tags |-> {}, contents |-> <<>>]>>
          /\ is_active(session)

\* unmark was called on a session of one mark, and the mark is still there
C2_Witness ==
    /\ call.op = "unmark"
    /\ Len(prev.marks) = 1
    /\ Len(session.marks) = 1

\* C3: mark(date) on an Active session succeeds, appends exactly one mark
\* with that date, attribute None, no tags and empty contents, leaves the
\* path and every earlier mark unchanged, and the session is still Active.
C3_MarkAppends ==
    (call.op = "mark" /\ is_active(prev)) =>
        /\ ret = Ret("Ok")
        /\ Appended(prev, session,
                    [date |-> call.date, attribute |-> "None", tags |-> {}, contents |-> <<>>])
        /\ is_active(session)

\* mark succeeded on a session whose last mark carried tags and contents
C3_Witness ==
    /\ call.op = "mark"
    /\ ret.status = "Ok"
    /\ Last(prev).tags # {}
    /\ Last(prev).contents # <<>>

\* C4: stop(date) on an Active session succeeds, appends exactly one mark
\* with that date and attribute Stop (no tags, empty contents), leaves all
\* earlier marks unchanged, and the session is no longer active.
C4_StopAppends ==
    (call.op = "stop" /\ is_active(prev)) =>
        /\ ret = Ret("Ok")
        /\ Appended(prev, session,
                    [date |-> call.date, attribute |-> "Stop", tags |-> {}, contents |-> <<>>])
        /\ ~is_active(session)

\* stop succeeded on a session whose last mark carried Skip and tags
C4_Witness ==
    /\ call.op = "stop"
    /\ ret.status = "Ok"
    /\ Last(prev).attribute = "Skip"
    /\ Last(prev).tags # {}

\* C5: mark(date) and stop(date) on an Ended session return an error and
\* leave the session exactly as it was.
C5_EndedRejects ==
    (call.op \in {"mark", "stop"} /\ ~is_active(prev)) =>
        /\ ret = Ret("Err")
        /\ session = prev

\* stop was called on an Ended session and failed
C5_Witness ==
    /\ call.op = "stop"
    /\ ~is_active(prev)
    /\ ret.status = "Err"

\* C6: unmark() on a session of one mark removes nothing and returns None;
\* on a session of two or more marks it removes exactly the last mark,
\* returns it, and leaves the other marks unchanged and in order.
C6_Unmark ==
    call.op = "unmark" =>
        IF Len(prev.marks) = 1
        THEN session = prev /\ ret = Ret("None")
        ELSE /\ Appended(session, prev, Last(prev))
             /\ ret = [status |-> "Some", mark |-> <<Last(prev)>>]

\* unmark removed a mark that differs from the one left
C6_Witness ==
    /\ call.op = "unmark"
    /\ ret.status = "Some"
    /\ ret.mark[1] # Last(session)

\* C7: remark(date) never fails, never changes the number of marks, and
\* changes only the date of the last mark: its attribute, tags and contents,
\* every other mark, the path and the Active/Ended state are unchanged.
C7_Remark ==
    /\ HasMark
    /\ call.op = "remark" =>
          /\ ret = Ret("Unit")
          /\ SameButLast(prev, session)
          /\ Last(session) = [Last(prev) EXCEPT !.date = call.date]
          /\ is_active(session) = is_active(prev)

\* remark moved the last mark of an Ended session that carries tags and contents
C7_Witness ==
    /\ call.op = "remark"
    /\ ~is_active(prev)
    /\ Len(prev.marks) > 1
    /\ Last(prev).date # call.date
    /\ Last(prev).contents # <<>>
    /\ prev.marks[1].tags # {}

\* C8: skip() sets the last mark's attribute to Skip whatever it was before;
\* on an Ended session it replaces the Stop of the last mark by Skip.
C8_SkipOverwrites ==
    call.op = "skip" => Last(session).attribute = "Skip"

\* skip was called on an Ended session
C8_Witness ==
    /\ call.op = "skip"
    /\ Last(prev).attribute = "Stop"

\* C9: tag(t) returns true and adds t iff t was absent, and a second tag(t)
\* returns false with the set unchanged; untag(t) returns true and removes t
\* iff t was present, and untag of an absent tag returns false with the set
\* unchanged; tag(t) then untag(t) on a mark without t restores the session.
C9_TagUntag ==
    /\ call.op = "tag" =>
          /\ ret = Ret(IF call.text \in Last(prev).tags THEN "false" ELSE "true")
          /\ Last(session).tags = Last(prev).tags \cup {call.text}
          /\ (call.text \in Last(prev).tags => session = prev)
          /\ Session_tag(session, call.text) = [session |-> session, ret |-> Ret("false")]
          /\ (ret.status = "true" => Session_untag(session, call.text).session = prev)
    /\ call.op = "untag" =>
          /\ ret = Ret(IF call.text \in Last(prev).tags THEN "true" ELSE "false")
          /\ Last(session).tags = Last(prev).tags \ {call.text}
          /\ (call.text \notin Last(prev).tags => session = prev)
          /\ Session_untag(session, call.text) = [session |-> session, ret |-> Ret("false")]

\* untag removed one of the two tags of the last mark
C9_Witness ==
    /\ call.op = "untag"
    /\ ret.status = "true"
    /\ Last(session).tags # {}

\* C10: write(text) succeeds exactly when the last mark's contents are
\* empty, and then sets them to text; when they are not empty it fails and
\* leaves the whole session unchanged.
C10_Write ==
    call.op = "write" =>
        IF Last(prev).contents = <<>>
        THEN /\ ret = Ret("Ok")
             /\ Last(session).contents = call.text
        ELSE /\ ret = Ret("Err")
             /\ session = prev

\* write failed on a mark that holds another text
C10_Witness ==
    /\ call.op = "write"
    /\ ret.status = "Err"
    /\ Last(session).contents # call.text

\* C11: erase() on the last mark clears its contents whatever they were and
\* changes nothing else, and a write(text) issued immediately after erase()
\* succeeds and stores text; so write-fails, erase, write never fails at its
\* second write.
C11_EraseThenWrite ==
    [][/\ call'.op = "erase" =>
             /\ Last(session').contents = <<>>
             /\ SameButLast(session, session')
             /\ Last(session') = [Last(session) EXCEPT !.contents = <<>>]
       /\ (call.op = "erase" /\ call'.op = "write") =>
             /\ ret' = Ret("Ok")
             /\ Last(session').contents = call'.text]_vars

\* erase was called on a mark whose contents a failed write had left in place
C11_Witness ==
    /\ call.op = "erase"
    /\ Last(prev).contents # <<>>
    /\ Last(prev).tags # {}
    /\ Last(session).contents = <<>>

\* The dates of the marks never decrease.
Monotone(marks) == \A i \in 1..(Len(marks) - 1) : marks[i].date <= marks[i + 1].date

RECURSIVE SumOver(_, _)
\* the sum of f[i] over the indices i of I
SumOver(f, I) ==
    IF I = {} THEN 0
    ELSE LET i == CHOOSE x \in I : TRUE IN f[i] + SumOver(f, I \ {i})

\* The intervals between consecutive marks that start at a mark without
\* Skip, plus the time since the last mark of an active session when that
\* mark has no Skip.
IntervalSum(marks, now) ==
    LET n == Len(marks)
        between == [i \in 1..(n - 1) |-> marks[i + 1].date - marks[i].date]
        counted == {i \in 1..(n - 1) : marks[i].attribute # "Skip"}
    IN  SumOver(between, counted)
        + (IF marks[n].attribute \notin {"Stop", "Skip"}
           THEN now - marks[n].date ELSE 0)

\* start, a mark one hour later, a stop two hours later
HourlySession(marks) ==
    /\ Len(marks) = 3
    /\ marks[1] = Mark_new(0)
    /\ marks[2] = Mark_new(3600000)
    /\ marks[3] = [Mark_new(7200000) EXCEPT !.attribute = "Stop"]

\* C12: for marks with non-decreasing dates and now at or after the last
\* mark, get_time() returns the sum of the intervals between consecutive
\* marks that start at a mark without Skip, plus now minus the last date
\* when the session is active and the last mark has no Skip; start, mark at
\* +1h, stop at +2h gives 7200000 ms.
C12_GetTime ==
    (/\ call.op = "get_time"
     /\ Monotone(session.marks)
     /\ call.date >= Last(session).date)
    => /\ ret = Ret("Ok")
       /\ out.time = IntervalSum(session.marks, call.date)
       /\ HourlySession(session.marks) => out.time = 7200000

\* the time of start, mark at +1h, stop at +2h has been computed three hours
\* after the start
C12_Witness ==
    /\ call.op = "get_time"
    /\ call.date = 10800000
    /\ HourlySession(session.marks)
    /\ out.time = 7200000

\* the session with the attribute of its i-th mark replaced
WithAttribute(s, i, attribute) == [s EXCEPT !.marks[i].attribute = attribute]

\* the interval that starts at the i-th mark: to the next mark, or to now
IntervalFrom(marks, i, now) ==
    IF i < Len(marks) THEN marks[i + 1].date - marks[i].date
    ELSE now - marks[i].date

\* C13: a mark with Skip removes from get_time() exactly the interval that
\* starts at it (to the next mark, or to now when it is the last mark of an
\* active session): without the Skip the time would be larger by that
\* interval. The interval that ends at it is still counted when the mark
\* before it has no Skip: with Skip on that mark the time would be smaller by
\* that interval.
C13_SkipForwardOnly ==
    (/\ call.op = "get_time"
     /\ Monotone(session.marks)
     /\ call.date >= Last(session).date)
    => \A i \in 1..Len(session.marks) :
          session.marks[i].attribute = "Skip" =>
            /\ ret = Ret("Ok")
            /\ Session_get_time(WithAttribute(session, i, "None"), call.date)
                 = Millis(out.time + IntervalFrom(session.marks, i, call.date))
            /\ (i > 1 /\ session.marks[i - 1].attribute # "Skip") =>
                  Session_get_time(WithAttribute(session, i - 1, "Skip"), call.date)
                    = Millis(out.time
                             - (session.marks[i].date - session.marks[i - 1].date))

\* start, a mark with Skip one hour later that is the last mark, asked three
\* hours after the start: one hour counted, two hours skipped
C13_Witness ==
    /\ call.op = "get_time"
    /\ call.date = 10800000
    /\ Len(session.marks) = 2
    /\ session.marks[1] = Mark_new(0)
    /\ session.marks[2] = [Mark_new(3600000) EXCEPT !.attribute = "Skip"]
    /\ out.time = 3600000

\* C14: get_time() on an ended session (the last mark has Stop) is the same
\* for every value of the current time.
C14_EndedIgnoresNow ==
    (call.op = "get_time" /\ ~is_active(session))
    => \A now \in Nows :
          Session_get_time(session, now) = [status |-> ret.status, value |-> out.time]

\* the time of an ended session with one counted hour was computed two hours
\* after its stop
C14_Witness ==
    /\ call.op = "get_time"
    /\ ~is_active(session)
    /\ Last(session).date = 3600000
    /\ call.date = 10800000
    /\ ret = Ret("Ok")
    /\ out.time = 3600000

\* w is the midnight that begins the Monday of the week of date, both read
\* in the time zone at offset (day 4 of the epoch is a Monday).
IsStartOfWeek(w, date, offset) ==
    /\ (w + offset) % (7 * DayMillis) = 4 * DayMillis
    /\ w <= date
    /\ date < w + 7 * DayMillis

\* C15: the week time of the Aggregator is the sum of get_time() over exactly
\* the sessions of its list that start on or after the start of the week of
\* the start of its last session; a session counts wholly or not at all, by
\* its start alone.
C15_WeekTime ==
    (call.op = "view" /\ ret = Ret("Ok"))
    => LET last == aggregator[Len(aggregator)]
           time == [i \in 1..Len(aggregator) |->
                       Session_get_time(aggregator[i], call.date).value]
           included == {i \in 1..Len(aggregator) :
                           Session_start(aggregator[i]) >= out.week_start}
       IN  /\ \E offset \in Offsets :
                 IsStartOfWeek(out.week_start, Session_start(last), offset)
           /\ out.week = SumOver(time, included)

\* three sessions: one of an hour that started 9 days before the last and is
\* left out, one of an hour that started on the Monday of the week and an
\* active one that started on its Wednesday, which are summed
C15_Witness ==
    /\ call.op = "view"
    /\ ret = Ret("Ok")
    /\ Len(aggregator) = 3
    /\ Session_start(aggregator[1]) = Session_start(aggregator[3]) - 9 * DayMillis
    /\ Len(aggregator[1].marks) = 2
    /\ Session_start(aggregator[2]) = 4 * DayMillis
    /\ Len(aggregator[2].marks) = 2
    /\ Session_start(aggregator[3]) = 6 * DayMillis
    /\ is_active(aggregator[3])
    /\ out.week = 3 * HourMillis
    /\ out.time = 2 * HourMillis

\* C16: the text that encodes a session reached through the mutators decodes
\* to a session whose encoding is exactly that text again.
C16_Canonical ==
    LET file == Session_to_file(session) IN
    /\ file.status = "Ok"
    /\ LET decoded == Session_from_file(file.file[1]) IN
       /\ decoded.status = "Ok"
       /\ LET again == Session_to_file(decoded.session[1]) IN
          /\ again.status = "Ok"
          /\ again.file[1].contents = file.file[1].contents

\* The lines of the document from its first mark heading on (none when it
\* has no mark heading).
FromMarkHeading(ls) ==
    LET at == {i \in 1..Len(ls) : starts_with(ls[i], MARK_HEADING_PREFIX)}
    IN  IF at = {} THEN <<>>
        ELSE SubSeq(ls, CHOOSE i \in at : \A j \in at : i <= j, Len(ls))

RECURSIVE DropBlank(_)
DropBlank(ls) ==
    IF ls # <<>> /\ trim(Head(ls)) = <<>> THEN DropBlank(Tail(ls)) ELSE ls

RECURSIVE TakeLabels(_)
TakeLabels(ls) ==
    IF ls = <<>> \/ ~starts_with(Head(ls), LABEL_PREFIX) THEN <<>>
    ELSE <<Head(ls)>> \o TakeLabels(Tail(ls))

\* The text of the document has a mark block.
HasBlock(text) == FromMarkHeading(lines(text)) # <<>>

\* The label run of the mark block of the document: the leading lines after
\* the heading (and the blank lines that follow it) that start with "- ".
LabelRun(text) ==
    IF ~HasBlock(text) THEN <<>>
    ELSE TakeLabels(DropBlank(Tail(FromMarkHeading(lines(text)))))

\* The lines of the mark block after its label run, joined and trimmed.
AfterRun(text) ==
    LET rest == DropBlank(Tail(FromMarkHeading(lines(text))))
    IN  trim(join(skip(rest, Len(LabelRun(text))), NL))

IsAttributeLine(line) == line \in {LABEL_END, LABEL_SKIP}

IsTagLine(line) == \E g \in TagsOf(TwoTagTexts) : line = Tag_to_line(g)

AttributeLines(run) == {i \in 1..Len(run) : IsAttributeLine(run[i])}

\* C17: a mark block whose label run has two attribute lines, the same or
\* different, with or without tag lines between them, does not decode: no
\* session is produced, and when every line of the run is an attribute line
\* or a tag line the outcome is Err.
C17_TwoAttributes ==
    (call.op = "from_file" /\ Cardinality(AttributeLines(LabelRun(call.text))) >= 2)
    => /\ ret.status # "Ok"
       /\ session = prev
       /\ (\A i \in 1..Len(LabelRun(call.text)) :
              IsAttributeLine(LabelRun(call.text)[i]) \/ IsTagLine(LabelRun(call.text)[i]))
          => ret = Ret("Err")

\* a block with "- end", a tag line and "- end" again was refused
C17_Witness ==
    /\ call.op = "from_file"
    /\ LabelRun(call.text) = <<LABEL_END, Tag_to_line(<<"a">>), LABEL_END>>
    /\ ret = Ret("Err")
    /\ session = prev

\* C18: a document with a valid header and the Marks section but no mark
\* heading does not decode (Err), and a decoded session has at least one
\* mark.
C18_NoMarks ==
    call.op = "from_file"
    => /\ ~HasBlock(call.text) => (ret = Ret("Err") /\ session = prev)
       /\ ret = Ret("Ok") => Len(session.marks) >= 1

\* the document that is only the header was refused
C18_Witness ==
    /\ call.op = "from_file"
    /\ call.text = DocumentHeader
    /\ SessionFile_build(SessionsPath, call.text).status = "Ok"
    /\ ret = Ret("Err")

\* C19: a mark block whose label run has a line that is neither "- end" nor
\* "- skip" nor the line of a tag does not decode: the outcome is Err,
\* whether or not an attribute line precedes that line.
C19_MalformedLabel ==
    (/\ call.op = "from_file"
     /\ \E i \in 1..Len(LabelRun(call.text)) :
           /\ ~IsAttributeLine(LabelRun(call.text)[i])
           /\ ~IsTagLine(LabelRun(call.text)[i]))
    => ret = Ret("Err")

\* The tags whose lines are in the run.
RunTags(run) ==
    {g \in TagsOf(TwoTagTexts) : \E i \in 1..Len(run) : run[i] = Tag_to_line(g)}

\* C20: when the label run of a mark block (attribute lines and tag lines,
\* at most one attribute line) has the same tag line more than once, the
\* decoded mark has each tag once and its contents are the lines after the
\* whole run: no line of the run is part of the contents.
C20_DuplicateTags ==
    LET run == LabelRun(call.text) IN
    (/\ call.op = "from_file"
     /\ \A i \in 1..Len(run) : IsAttributeLine(run[i]) \/ IsTagLine(run[i])
     /\ Cardinality(AttributeLines(run)) <= 1
     /\ \E i, j \in 1..Len(run) : i < j /\ IsTagLine(run[i]) /\ run[i] = run[j])
    => /\ ret = Ret("Ok")
       /\ Last(session).tags = RunTags(run)
       /\ Last(session).contents = AfterRun(call.text)

\* C21: for a mark with attribute None or Stop, any set of tags and trimmed
\* non-empty contents, from_string(to_string(mark)) is Ok with a mark equal
\* to it; the tags are recovered also when the attribute is None.
C21_MarkRoundTrip ==
    (/\ call.op = "from_string"
     /\ Last(session).attribute \in {"None", "Stop"}
     /\ Last(session).contents # <<>>
     /\ trim(Last(session).contents) = Last(session).contents)
    => ret = [status |-> "Ok", mark |-> <<Last(session)>>]

RECURSIVE HeadingsFrom(_, _)
\* The indices from i on of the lines of ls that start with "### ", ascending.
HeadingsFrom(ls, i) ==
    IF i > Len(ls) THEN <<>>
    ELSE (IF starts_with(ls[i], MARK_HEADING_PREFIX) THEN <<i>> ELSE <<>>)
         \o HeadingsFrom(ls, i + 1)

\* The k-th mark block of the lines ls: from its heading up to the line
\* before the next mark heading, or to the end.
BlockOf(ls, k) ==
    LET at == HeadingsFrom(ls, 1)
    IN  join(SubSeq(ls, at[k], IF k < Len(at) THEN at[k + 1] - 1 ELSE Len(ls)), NL)

\* C22: decoding the text of a session yields one mark per line that starts
\* with "### ", in the order of the lines, and each mark is what its own
\* block (its heading up to the next mark heading) decodes to, also when two
\* headings carry the same date.
C22_OneMarkPerHeading ==
    LET file == Session_to_file(session) IN
    /\ file.status = "Ok"
    /\ LET ls == lines(file.file[1].contents)
           decoded == Session_from_file(file.file[1])
       IN  /\ decoded.status = "Ok"
           /\ Len(decoded.session[1].marks) = Len(HeadingsFrom(ls, 1))
           /\ \A k \in 1..Len(HeadingsFrom(ls, 1)) :
                 <<decoded.session[1].marks[k]>> = Mark_from_string(BlockOf(ls, k)).mark

\* The tag whose line is the given line.
TagOfLine(line, tags) == CHOOSE g \in tags : Tag_to_line(g) = line

\* C23: the text of a mark is, in this order, its heading line; when it has
\* an attribute or tags, an empty line, the attribute line if the attribute
\* is not None, and one line per tag ascending by the text of the tag; and,
\* only when the trimmed contents are not empty, an empty line and the
\* trimmed contents. The text depends on the tag set alone.
C23_EncodingOrder ==
    call.op = "from_string" =>
    LET mark == Last(session)
        L == lines(call.text)
        n_attr == IF mark.attribute # "None" THEN 1 ELSE 0
        n_tags == Cardinality(mark.tags)
        labels_end == IF n_attr + n_tags > 0 THEN 2 + n_attr + n_tags ELSE 1
        trimmed == trim(mark.contents)
    IN  /\ Len(L) >= labels_end
        /\ L[1] = MARK_HEADING_PREFIX \o to_formatted_pretty(mark.date)
        /\ n_attr + n_tags > 0 => L[2] = <<>>
        /\ mark.attribute = "Stop" => L[3] = LABEL_END
        /\ mark.attribute = "Skip" => L[3] = LABEL_SKIP
        /\ \A k \in 1..n_tags : \E g \in mark.tags : L[2 + n_attr + k] = Tag_to_line(g)
        /\ \A k \in 1..(n_tags - 1) :
              str_lt(TagOfLine(L[2 + n_attr + k], mark.tags),
                     TagOfLine(L[3 + n_attr + k], mark.tags))
        /\ trimmed = <<>> => Len(L) = labels_end
        /\ trimmed # <<>> =>
              /\ Len(L) >= labels_end + 2
              /\ L[labels_end + 1] = <<>>
              /\ join(SubSeq(L, labels_end + 2, Len(L)), NL) = trimmed

\* a mark with Stop, the tags a and b and contents that end with a line
\* break was written as text: "- end", the line of a, the line of b, "hi"
C23_Witness ==
    /\ call.op = "from_string"
    /\ Last(session).attribute = "Stop"
    /\ Cardinality(Last(session).tags) = 2
    /\ Last(session).contents = <<"h", "i", "\n">>
    /\ lines(call.text) =
          <<MARK_HEADING_PREFIX \o to_formatted_pretty(Last(session).date), <<>>,
            LABEL_END, Tag_to_line(<<"a">>), Tag_to_line(<<"b">>), <<>>, <<"h", "i">>>>

\* C24: in every session reached through the mutators, write(text) with any
\* text included, the contents of each mark, when not empty, neither begin
\* nor end with white space or blank lines.
C24_ContentsTrimmed ==
    \A i \in 1..Len(session.marks) :
        session.marks[i].contents # <<>>
        => trim(session.marks[i].contents) = session.marks[i].contents

\* Some interval that get_time counts ends before it starts: two
\* consecutive marks whose first has no Skip, or the last mark of an active
\* session without Skip and now.
CountedBackwards(marks, now) ==
    \/ \E i \in 1..(Len(marks) - 1) :
          marks[i].attribute # "Skip" /\ marks[i + 1].date < marks[i].date
    \/ /\ marks[Len(marks)].attribute \notin {"Stop", "Skip"}
       /\ now < marks[Len(marks)].date

\* C25: DateTime::get_time(start, end) is end - start when end >= start and
\* aborts when end < start, so Session::get_time aborts exactly when some
\* counted interval ends before it starts; a pair of marks out of order
\* whose first has Skip does not make it abort.
C25_AbortsOnBackwards ==
    call.op = "get_time" =>
        /\ (ret.status = "Panic") <=> CountedBackwards(session.marks, call.date)
        /\ ret.status \in {"Ok", "Panic"}
        /\ (/\ Len(session.marks) = 2
            /\ session.marks[1].attribute = "None"
            /\ session.marks[2].attribute = "Stop")
           => IF session.marks[2].date >= session.marks[1].date
              THEN ret.status = "Ok"
                   /\ out.time = session.marks[2].date - session.marks[1].date
              ELSE ret.status = "Panic"

\* the time of two marks out of order whose first has Skip was computed
C25_Witness ==
    /\ call.op = "get_time"
    /\ Len(session.marks) = 2
    /\ session.marks[1].attribute = "Skip"
    /\ session.marks[2].attribute = "Stop"
    /\ session.marks[2].date < session.marks[1].date
    /\ ret = Ret("Ok")
    /\ out.time = 0

\* The milliseconds of the unit written s, m or h.
UnitMillis(unit) ==
    IF unit = "s" THEN 1000 ELSE IF unit = "m" THEN 60 * 1000 ELSE HourMillis

\* What a sign in front of a number does to it: none and "+" add, "-"
\* subtracts, "--" adds.
SignFactor(sign) == IF sign = <<"-">> THEN 0 - 1 ELSE 1

\* C26: for an input of a number and a unit s, m or h after an optional
\* sign, modify_by_relative_input returns the base plus the signed number of
\* units: N and +N add, -N subtracts, --N adds (so --15s equals +15s).
C26_UnitOffset ==
    call.op = "modify_by_relative_input" =>
        \A sign \in Signs, n \in {0, 15, 90}, unit \in {"s", "m", "h"} :
            call.text = sign \o Decimal(n) \o <<unit>>
            => /\ ret = Ret("Ok")
               /\ out.date = call.date + SignFactor(sign) * n * UnitMillis(unit)

\* --15m was applied to a base and gave the base plus a quarter of an hour
C26_Witness ==
    /\ call.op = "modify_by_relative_input"
    /\ call.text = <<"-", "-", "1", "5", "m">>
    /\ ret = Ret("Ok")
    /\ out.date = call.date + 15 * 60 * 1000

\* The date on the local day of base (zone at offset) at h:m, with the
\* seconds and milliseconds of base.
ClockTarget(base, offset, h, m) ==
    ((base + offset) \div DayMillis) * DayMillis
    + TimeOfDay(h, m, 0) + ((base + offset) % (60 * 1000)) - offset

\* C27 as stated: for HH:MM after no sign or "-" the target of the same
\* day is returned when the sign is positive and the target is not before
\* the base, and when the sign is negative and the target is not after the
\* base (a target equal to the base included); otherwise the target moved by
\* one day in the direction of the sign.
C27_ClockAsStated ==
    call.op = "modify_by_relative_input" =>
        \A sign \in {<<>>, <<"-">>}, h \in {0, 9, 12, 23}, m \in {0, 30, 59} :
            call.text = sign \o Decimal(h) \o <<":">> \o TwoDigits(m)
            => LET target == ClockTarget(call.date, call.offset, h, m)
                   difference == target - call.date
               IN  /\ ret = Ret("Ok")
                   /\ out.date =
                        IF \/ SignFactor(sign) > 0 /\ difference >= 0
                           \/ SignFactor(sign) < 0 /\ difference <= 0
                        THEN target
                        ELSE target + SignFactor(sign) * DayMillis

\* C27, amended: for HH:MM after no sign or "-" (or after "+" when the text
\* has at most 5 characters) the target of the same day is returned when the
\* sign is positive and the target is not before the base, and when the sign
\* is negative and the target is before the base; a target equal to the base
\* with a negative sign, like every other case, is moved by one day in the
\* direction of the sign. "+" before a text of 5 characters is an error.
C27_Clock ==
    call.op = "modify_by_relative_input" =>
        \A sign \in {<<>>, <<"+">>, <<"-">>}, h \in {0, 9, 12, 23}, m \in {0, 30, 59} :
            call.text = sign \o Decimal(h) \o <<":">> \o TwoDigits(m)
            => LET target == ClockTarget(call.date, call.offset, h, m)
                   difference == target - call.date
               IN  IF sign = <<"+">> /\ Len(call.text) > 5 THEN ret = Ret("Err")
                   ELSE /\ ret = Ret("Ok")
                        /\ out.date =
                             IF \/ SignFactor(sign) > 0 /\ difference >= 0
                                \/ SignFactor(sign) < 0 /\ difference < 0
                             THEN target
                             ELSE target + SignFactor(sign) * DayMillis

\* -12:30 was applied to a base at 12:30 and gave the day before
C27_Witness ==
    /\ call.op = "modify_by_relative_input"
    /\ call.text = <<"-", "1", "2", ":", "3", "0">>
    /\ ClockTarget(call.date, call.offset, 12, 30) = call.date
    /\ ret = Ret("Ok")
    /\ out.date = call.date - DayMillis

\* The date in the local hour of base (zone at offset) at minute m, with the
\* seconds and milliseconds of base.
MinuteTarget(base, offset, m) ==
    ((base + offset) \div HourMillis) * HourMillis
    + m * 60 * 1000 + ((base + offset) % (60 * 1000)) - offset

\* C28: for a bare minute MM (0-59) after an optional sign the result has
\* minute MM and the seconds of the base; it lies in the hour of the base
\* when that is on the side of the base the sign demands (after it for a
\* positive sign, before it for a negative one), and otherwise exactly one
\* hour further in the direction of the sign; 60 is a parse error.
C28_BareMinute ==
    call.op = "modify_by_relative_input" =>
        \A sign \in {<<>>, <<"+">>, <<"-">>} :
            /\ \A m \in {0, 30, 59} :
                  call.text = sign \o Decimal(m)
                  => LET target == MinuteTarget(call.date, call.offset, m)
                         difference == target - call.date
                         moved == target + SignFactor(sign) * HourMillis
                     IN  /\ ret = Ret("Ok")
                         /\ (out.date + call.offset) % HourMillis
                              = m * 60 * 1000 + ((call.date + call.offset) % (60 * 1000))
                         /\ SignFactor(sign) * difference > 0 => out.date = target
                         /\ SignFactor(sign) * difference < 0 => out.date = moved
                         /\ difference = 0 => out.date \in {target, moved}
            /\ call.text = sign \o Decimal(60) => ret = Ret("Err")

\* 30 was applied to the last second of a day and gave half past midnight
\* of the next day, one hour after 23:30:59
C28_Witness ==
    /\ call.op = "modify_by_relative_input"
    /\ call.text = <<"3", "0">>
    /\ call.offset = 0
    /\ call.date = DayMillis + TimeOfDay(23, 59, 59)
    /\ ret = Ret("Ok")
    /\ out.date = 2 * DayMillis + TimeOfDay(0, 30, 59)

\* The midnight that begins the local day of date in the zone at offset.
LocalMidnight(date, offset) == ((date + offset) \div DayMillis) * DayMillis - offset

\* C29: get_start_of_week(date) is the Monday 00:00:00 of the week of date:
\* a Monday at midnight, not after date and less than 7 days before it; for
\* a date on a Monday it is the midnight of that day.
C29_StartOfWeek ==
    call.op = "get_start_of_week" =>
        /\ IsStartOfWeek(out.week_start, call.date, call.offset)
        /\ call.date - out.week_start < 7 * DayMillis
        /\ ((call.date + call.offset) \div DayMillis) % 7 = 4
           => out.week_start = LocalMidnight(call.date, call.offset)

\* the start of the week of a Sunday, one second before the next Monday, was
\* asked for and is the midnight of the Monday six days earlier
C29_Witness ==
    /\ call.op = "get_start_of_week"
    /\ call.offset = 0
    /\ call.date = 3 * DayMillis + TimeOfDay(23, 59, 59)
    /\ out.week_start = (0 - 3) * DayMillis

\* The mark m is the mark p but for the fields in F.
SameBut(p, m, F) ==
    /\ "date" \notin F => m.date = p.date
    /\ "attribute" \notin F => m.attribute = p.attribute
    /\ "tags" \notin F => m.tags = p.tags
    /\ "contents" \notin F => m.contents = p.contents

\* C30: no mutator changes the path or a mark other than the last one;
\* skip, tag, untag, write and erase keep the number of marks and change at
\* most the field they name (attribute, tags, contents) of the last mark.
C30_Frame ==
    /\ session.path = prev.path
    /\ Len(session.marks) >= Len(prev.marks) - 1
    /\ \A i \in 1..(Len(prev.marks) - 1) :
          i <= Len(session.marks) => session.marks[i] = prev.marks[i]
    /\ call.op \in {"skip", "tag", "untag", "write", "erase"} =>
          /\ Len(session.marks) = Len(prev.marks)
          /\ SameBut(Last(prev), Last(session),
                     IF call.op = "skip" THEN {"attribute"}
                     ELSE IF call.op \in {"tag", "untag"} THEN {"tags"}
                     ELSE {"contents"})

\* tag was called on a session of two marks with contents, and the tag is
\* on the last mark only
C30_Witness ==
    /\ call.op = "tag"
    /\ Len(prev.marks) = 2
    /\ prev.marks[1].contents # <<>>
    /\ Last(prev).contents # <<>>
    /\ Last(prev).tags = {}
    /\ Last(session).tags # {}
    /\ session.marks[1].tags = {}

\* C31: at most one mark of a session carries the attribute Stop, and a
\* mark that does is the last one: no mark before the last is a Stop mark.
C31_StopOnlyLast ==
    /\ \A i \in 1..(Len(session.marks) - 1) : session.marks[i].attribute # "Stop"
    /\ Cardinality({i \in 1..Len(session.marks) : session.marks[i].attribute = "Stop"}) <= 1

\* mark was refused on an Ended session of several marks, whose Stop mark
\* is still the last one
C31_Witness ==
    /\ call.op = "mark"
    /\ ret = Ret("Err")
    /\ Len(session.marks) >= 2
    /\ Last(session).attribute = "Stop"

\* C32: no session is a single mark with the attribute Stop, which is what
\* the assertion at the top of Aggregator::view requires of a session.
C32_NeverOnlyStop ==
    ~(Len(session.marks) = 1 /\ Last(session).attribute = "Stop")

\* unmark took the Stop mark off a session of two marks, and the one mark
\* left is not a Stop mark; unmark then refused to remove the only mark
C32_Witness ==
    /\ call.op = "unmark"
    /\ Len(prev.marks) = 2
    /\ Last(prev).attribute = "Stop"
    /\ ret.status = "Some"
    /\ Len(session.marks) = 1
    /\ Aggregator_view(<<session>>, Last(session).date, 0).status = "Ok"

\* C33: a call of mark, stop, remark, tag, untag, write or erase on an Ended
\* session leaves it Ended; a call of skip or unmark on an Ended session
\* leaves it Active, and mark and stop at any date then succeed on it.
C33_EndedUntilSkipOrUnmark ==
    ~is_active(prev) =>
        /\ call.op \in {"mark", "stop", "remark", "tag", "untag", "write", "erase"} =>
              ~is_active(session)
        /\ call.op \in {"skip", "unmark"} =>
              /\ is_active(session)
              /\ \A date \in Dates :
                    /\ Session_mark(session, date).ret = Ret("Ok")
                    /\ Session_stop(session, date).ret = Ret("Ok")

\* unmark was called on an Ended session and removed its Stop mark
C33_Witness ==
    /\ call.op = "unmark"
    /\ ~is_active(prev)
    /\ ret = [status |-> "Some", mark |-> <<Last(prev)>>]
    /\ is_active(session)

\* C34: skip called on an Ended session leaves the time get_time computes
\* unchanged, whatever the current time is: the intervals between the marks
\* are counted as before and nothing is added for the time since the last mark.
C34_SkipKeepsTime ==
    (call.op = "skip" /\ ~is_active(prev)) =>
        \A now \in Nows :
            /\ Session_get_time(session, now) = Session_get_time(prev, now)
            /\ Session_get_time(session, now) =
                  get_time_loop(prev.marks, 2, 1, Millis(0)).acc

\* skip was called on an Ended session that tracked a second, and the
\* session is Active with that same second three hours later
C34_Witness ==
    /\ call.op = "skip"
    /\ ~is_active(prev)
    /\ is_active(session)
    /\ Last(session).attribute = "Skip"
    /\ Session_get_time(prev, 0) = Millis(1000)
    /\ Session_get_time(session, 10800000) = Millis(1000)

\* C35: when unmark is called right after a mark(d) or a stop(d) that
\* succeeded on an Active session, the session is again exactly the one
\* before the mark or stop, and unmark returns the mark that call appended.
C35_AppendThenUnmark ==
    [][(call.op \in {"mark", "stop"} /\ ret = Ret("Ok") /\ call'.op = "unmark") =>
          /\ is_active(prev)
          /\ Last(session) = [Mark_new(call.date) EXCEPT
                                 !.attribute = IF call.op = "stop" THEN "Stop" ELSE "None"]
          /\ session' = prev
          /\ ret' = [status |-> "Some", mark |-> <<Last(session)>>]]_vars

\* unmark returned a fresh Stop mark and left an Active session whose last
\* mark has tags and contents
C35_Witness ==
    /\ call.op = "unmark"
    /\ ret = [status |-> "Some", mark |-> <<[Mark_new(1000) EXCEPT !.attribute = "Stop"]>>]
    /\ prev.marks = Append(session.marks, ret.mark[1])
    /\ is_active(session)
    /\ Last(session).tags # {}
    /\ Last(session).contents # <<>>

\* C36: decoding the text of a mark that has no attribute, no tags and
\* contents whose first line starts with "- " yields a mark with no
\* attribute, no tags and those contents: the line is contents, not a label.
C36_ContentsNotLabels ==
    (/\ call.op = "from_string"
     /\ Last(session).attribute = "None"
     /\ Last(session).tags = {}
     /\ starts_with(Last(session).contents, LABEL_PREFIX))
    => /\ ret.status = "Ok"
       /\ ret.mark[1].attribute = Last(session).attribute
       /\ ret.mark[1].tags = Last(session).tags
       /\ ret.mark[1].contents = Last(session).contents

\* C37 as stated: a write that directly follows a write that succeeded,
\* whatever its text was, fails.
C37_AnyText ==
    [][(call.op = "write" /\ ret = Ret("Ok") /\ call'.op = "write") =>
          ret' = Ret("Err")]_vars

\* C37: a write that succeeds with a text that is not empty leaves the last
\* mark with contents; while a mark has contents every write on it fails and
\* changes nothing, and no call but erase on that mark changes its contents.
\* A write of the empty text succeeds and the write after it succeeds too.
C37_NonEmptyText ==
    [][/\ (call'.op = "write" /\ ret' = Ret("Ok") /\ call'.text # <<>>) =>
             Last(session').contents # <<>>
       /\ (call'.op = "write" /\ Last(session).contents # <<>>) =>
             /\ ret' = Ret("Err")
             /\ session' = session
       /\ \A i \in 1..Len(session.marks) :
             (/\ i <= Len(session'.marks)
              /\ session.marks[i].contents # <<>>
              /\ ~(call'.op = "erase" /\ i = Len(session.marks))) =>
                 session'.marks[i].contents = session.marks[i].contents
       /\ (/\ call.op = "write" /\ ret = Ret("Ok") /\ call.text = <<>>
           /\ call'.op = "write") =>
             ret' = Ret("Ok")]_vars

\* a write of another text failed on a skipped, tagged mark that still has
\* the text of an earlier write, and changed nothing
C37_Witness ==
    /\ call.op = "write"
    /\ ret = Ret("Err")
    /\ call.text = <<" ">>
    /\ Last(session).contents = <<"h", "i">>
    /\ Last(session).tags # {}
    /\ Last(session).attribute = "Skip"
    /\ session = prev

\* C38: the result of a time of day HH:MM (period one day) or a bare minute
\* MM (period one hour) lies within one period of the base on the side the
\* sign chooses: from the base up to less than a period after it for no sign
\* and "+", from a period before the base up to less than the base for "-";
\* "-" before the base's own time of day or minute gives exactly one period
\* before the base.
C38_WithinOnePeriod ==
    (/\ call.op = "modify_by_relative_input"
     /\ call.text \in ClockInputs \cup MinuteInputs
     /\ ret = Ret("Ok"))
    => LET base == call.date
           period == IF call.text \in ClockInputs THEN DayMillis ELSE HourMillis
           negative == starts_with(call.text, <<"-">>)
           own == \/ \E h \in 0..23, m \in 0..59 :
                        /\ call.text = <<"-">> \o Decimal(h) \o <<":">> \o TwoDigits(m)
                        /\ ClockTarget(base, call.offset, h, m) = base
                  \/ \E m \in 0..59 :
                        /\ call.text = <<"-">> \o Decimal(m)
                        /\ MinuteTarget(base, call.offset, m) = base
       IN  /\ ~negative => (base <= out.date /\ out.date < base + period)
           /\ negative => (base - period <= out.date /\ out.date < base)
           /\ own => out.date = base - period

\* -30 was applied to a base at 12:30:00 and gave 11:30:00, one hour before
C38_Witness ==
    /\ call.op = "modify_by_relative_input"
    /\ call.text = <<"-", "3", "0">>
    /\ call.offset = 0
    /\ call.date = DayMillis + TimeOfDay(12, 30, 0)
    /\ ret = Ret("Ok")
    /\ out.date = DayMillis + TimeOfDay(11, 30, 0)

====
